---- MODULE Spec2Model ----
(***************************************************************************)
(* A state-machine model of the polling agent of the inferable node SDK    *)
(* (PollingAgent, src/unnamed/part_002): registration with the control     *)
(* plane, the queue consumer's poll loop, message processing, the          *)
(* credential-expiry restart and stop().                                   *)
(*                                                                         *)
(* JavaScript runs one task at a time: every action below is one run of    *)
(* the event loop from a callback's start to its next await on a timer or  *)
(* on the network.  Code that runs inside an emit runs inside the action   *)
(* that emits.                                                             *)
(***************************************************************************)
EXTENDS Integers, Sequences, FiniteSets, TLC

(***************************************************************************)
(* Bounds of the model.                                                    *)
(***************************************************************************)
MaxRegs == 3
MaxTicks == 2
MaxMsgs == 2
MaxDeliveries == 2
MaxBlobs == 2

\* every restart but the last one counted calls createMachine
MaxRestarts == MaxRegs - 1

(***************************************************************************)
(* Program constants.                                                      *)
(***************************************************************************)
OneMinute == 60000
\* the queue requests the transport fails before it recovers
TransientFailures == 3
BatchSize == 10

\* null / undefined where a number is expected
Nil == 0 - 1

\* Time advances in steps of one minute; fresh credentials live for one
\* minute past the window in which the agent restarts.
TickMs == OneMinute
FreshTtl == OneMinute + OneMinute

(***************************************************************************)
(* State.                                                                  *)
(***************************************************************************)
VARIABLES
  now,                    \* the clock, ms
  consumer,               \* this.consumer: index into cons, 0 = undefined
  sqsQueueUrl,            \* this.sqsQueueUrl / this.sqsClient: the registration
                          \* response they were taken from, 0 = unset
  pollingEnabled,         \* this.pollingEnabled
  credentialsExpiration,  \* this.credentialsExpiration: ms, Nil = null
  regCalls,               \* createMachine calls issued
  regs,                   \* the successful registration responses, in order
  exitCalls,              \* invocations of the exit callback
  cons,                   \* the Consumer objects created so far
  ustart,                 \* the caller's start(): [pc, status]
  ustop,                  \* the caller's stop(): [pc]
  restarts,               \* checkAndRestartIfNeeded runs that reached stop()
  errs,                   \* transient transport failures so far
  env,                    \* what the control plane and the queue may answer
  queue,                  \* the queue: each message's delivery state
  msgs,                   \* the messages' contents
  procs,                  \* per message, its processMessage runs, in order
  registry,               \* the client's functionRegistry: name -> registration
  services,               \* the client's services: the names of the Service
                          \* objects created, in order
  starts,                 \* the start() calls of the service definition
  definition,             \* the functions the service definition carries
  lastCall,               \* the last register call: [input, error]
  process                 \* the Node.js process: "running" or "crashed"

lifeVars == <<now, consumer, sqsQueueUrl, pollingEnabled, credentialsExpiration,
              regCalls, regs, exitCalls, cons, ustart, ustop, restarts, errs,
              env>>
msgVars == <<queue, msgs, procs>>
clientVars == <<registry, starts, definition, lastCall>>
vars == <<lifeVars, msgVars, clientVars, services, process>>

(***************************************************************************)
(* The agent's and the consumers' fields as one record, so that the code   *)
(* run inside one callback composes as a sequence of record updates.       *)
(***************************************************************************)
Agent ==
  [consumer |-> consumer, sqsQueueUrl |-> sqsQueueUrl,
   pollingEnabled |-> pollingEnabled,
   credentialsExpiration |-> credentialsExpiration,
   regCalls |-> regCalls, regs |-> regs, exitCalls |-> exitCalls,
   cons |-> cons, restarts |-> restarts]

Commit(s) ==
  /\ process = "running"
  /\ consumer' = s.consumer
  /\ sqsQueueUrl' = s.sqsQueueUrl
  /\ pollingEnabled' = s.pollingEnabled
  /\ credentialsExpiration' = s.credentialsExpiration
  /\ regCalls' = s.regCalls
  /\ regs' = s.regs
  /\ exitCalls' = s.exitCalls
  /\ cons' = s.cons
  /\ restarts' = s.restarts

(***************************************************************************)
(* The queue consumer (sqs-consumer).  phase: "idle" created and never     *)
(* started, "recv" a receive call in flight, "del" a received batch handed *)
(* to the handler and its deletes in flight, "timer" the next poll         *)
(* scheduled, "off" the poll loop ended.                                   *)
(***************************************************************************)
NewConsumer(reg) ==
  [reg |-> reg, stopped |-> TRUE, phase |-> "idle", listeners |-> TRUE,
   waiting |-> FALSE, batch |-> {}]

\* consumer.status.isPolling
IsPolling(s, c) == s.cons[c].phase \in {"recv", "del"}

\* consumer.status.isRunning
IsRunning(s, c) == ~s.cons[c].stopped

\* the "stopped" listener: this.exitHandler()
EmitStopped(s, c) ==
  IF s.cons[c].listeners THEN [s EXCEPT !.exitCalls = @ + 1] ELSE s

\* consumer.start(): a stopped consumer starts its poll loop
ConsumerStart(s, c) ==
  IF s.cons[c].stopped
  THEN [s EXCEPT !.cons[c].stopped = FALSE, !.cons[c].phase = "recv"]
  ELSE s

\* consumer.stop({abort: true}): in-flight requests are aborted; "stopped" is
\* emitted at once when no poll is in flight, else when the poll has ended
ConsumerStop(s, c) ==
  IF s.cons[c].stopped THEN s
  ELSE IF IsPolling(s, c)
       THEN [s EXCEPT !.cons[c].stopped = TRUE, !.cons[c].waiting = TRUE]
       ELSE EmitStopped([s EXCEPT !.cons[c].stopped = TRUE,
                                  !.cons[c].phase = "off"], c)

\* the end of one poll: the next one is scheduled unless the consumer stopped
FinishPoll(s, c) ==
  [s EXCEPT !.cons[c].phase = IF s.cons[c].stopped THEN "off" ELSE "timer",
            !.cons[c].batch = {}]

(***************************************************************************)
(* The agent.                                                              *)
(***************************************************************************)
\* an asynchronous call of start(), stop() or checkAndRestartIfNeeded: where
\* it stands and, once it failed, the error it threw
NewTask == [pc |-> "idle", err |-> "", status |-> 0, body |-> ""]

\* a check that finds every expiration stale
NeedsRestart_Always(exp) == TRUE

\* a check that restarts only once the credentials have expired
NeedsRestart_ExpiredOnly(exp) == now > exp

\* expired || withinOneMinute
NeedsRestart(exp) == (now > exp) \/ (exp - now < OneMinute)

\* stop() up to its wait: the consumer is told to stop
AgentStopSync(s) == ConsumerStop(s, s.consumer)

\* the wait of stop(): resolved when this.consumer reports not polling
StopWaitOver(s) == IF s.consumer = 0 THEN TRUE ELSE ~IsPolling(s, s.consumer)

\* stop() after its wait: listeners detached, exit callback invoked
AgentStopResume(s) ==
  LET t == IF s.consumer = 0 THEN s
           ELSE [s EXCEPT !.cons[s.consumer].listeners = FALSE]
  IN [t EXCEPT !.exitCalls = @ + 1]

\* start() up to the await of createMachine
RegisterCall(s) == [s EXCEPT !.regCalls = @ + 1]

\* checkAndRestartIfNeeded after stop() returned: the consumer is discarded
\* and start() is called
RestartAfterStop(s) ==
  RegisterCall([AgentStopResume(s) EXCEPT !.consumer = 0])

\* checkAndRestartIfNeeded, run by the error, empty and response_processed
\* listeners
CheckAndRestartIfNeeded(s) ==
  IF s.credentialsExpiration = Nil THEN s
  ELSE IF ~NeedsRestart(s.credentialsExpiration) THEN s
  ELSE IF s.consumer = 0 THEN s
       ELSE LET t == AgentStopSync(s) IN
            IF StopWaitOver(t)
            THEN [RestartAfterStop(t) EXCEPT
                    !.restarts = Append(@, [NewTask EXCEPT !.pc = "register"])]
            ELSE [t EXCEPT
                    !.restarts = Append(@, [NewTask EXCEPT !.pc = "stopWait"])]

\* listeners that stop the agent on a signal
Emit_StopsAgent(s, c) == IF s.cons[c].listeners THEN AgentStopSync(s) ELSE s

\* a lifecycle signal of consumer c reaches the agent's listener, if attached
Emit(s, c) == IF s.cons[c].listeners THEN CheckAndRestartIfNeeded(s) ELSE s

\* body.enabled ?? true, for a flag that is "true", "false" or "absent"
OrTrue(flag) == flag # "false"

\* registerMachine that starts the consumer whatever the response's flag
RegisterSuccess_IgnoresFlag(s, resp) ==
  LET r == Len(s.regs) + 1
      a == [s EXCEPT !.regs = Append(@, resp),
                     !.sqsQueueUrl = r,
                     !.pollingEnabled = OrTrue(resp.enabled),
                     !.credentialsExpiration = resp.expiration]
  IN IF a.consumer # 0 THEN a
     ELSE LET c == Len(a.cons) + 1
              b == [a EXCEPT !.cons = Append(@, NewConsumer(r)),
                             !.consumer = c]
          IN ConsumerStart(b, c)

\* registerMachine after a 200 response: fields assigned, consumer created,
\* listeners attached, consumer started if enabled
RegisterSuccess(s, resp) ==
  LET r == Len(s.regs) + 1
      a == [s EXCEPT !.regs = Append(@, resp),
                     !.sqsQueueUrl = r,
                     !.pollingEnabled = OrTrue(resp.enabled),
                     !.credentialsExpiration = resp.expiration]
  IN IF a.consumer # 0 THEN a
     ELSE LET c == Len(a.cons) + 1
              b == [a EXCEPT !.cons = Append(@, NewConsumer(r)),
                             !.consumer = c]
          IN IF b.pollingEnabled THEN ConsumerStart(b, c) ELSE b

\* the outcome of registerMachine for the task that awaited it
RegisterOutcome(s) == IF s.consumer # 0 THEN "failed" ELSE "done"

(***************************************************************************)
(* Values, the payload codec and the function registry.                    *)
(***************************************************************************)
Texts == {"a", "b"}

\* decoded JSON values, as far as processMessage tells them apart
Obj(text) == [type |-> "object", field |-> "string", text |-> text]
BadObj == [type |-> "object", field |-> "number", text |-> "42"]
Arr == [type |-> "array", field |-> "", text |-> ""]
Prim == [type |-> "number", field |-> "", text |-> ""]
Null == [type |-> "null", field |-> "", text |-> ""]
Undefined == [type |-> "undefined", field |-> "", text |-> ""]
Thrown == [type |-> "thrown", field |-> "", text |-> ""]

\* wire strings: JSON text of an object with a value key, of an object
\* without one, of null, or no JSON at all
Garbage == [json |-> "none", value |-> Undefined]
JsonNull == [json |-> "null", value |-> Undefined]
JsonNoValue == [json |-> "object", value |-> Undefined]

\* packer.pack: JSON.stringify({ value })
pack(v) == [json |-> "envelope", value |-> v]

\* packer.unpack: JSON.parse(value).value; Thrown when JSON.parse throws or
\* the parsed text is null
unpack(w) ==
  CASE w.json = "none" -> Thrown
    [] w.json = "null" -> Thrown
    [] w.json = "object" -> Undefined
    [] OTHER -> w.value

\* the functions registered with the client, of this agent's service ("svc")
\* or of another
FunctionNames ==
  {"echo", "error", "getCustomAnimal", "secure", "snapshot", "other"}

clientRegistry ==
  [f \in FunctionNames |->
     [name |-> f,
      serviceName |-> IF f = "other" THEN "billing" ELSE "svc",
      authenticate |-> f = "secure"]]

ServiceName == "svc"

(***************************************************************************)
(* The client's registerFunction.  A register call supplies a name, the    *)
(* service it is made under, a handler, a description, an authenticator    *)
(* (present or absent) and a schema; the calls the model makes are drawn    *)
(* from RegisterInputs.                                                    *)
(***************************************************************************)
ServiceNames == {"svc", "billing"}

RegisterInput(name, serviceName, func, description, authenticate, schema) ==
  [name |-> name, serviceName |-> serviceName, func |-> func,
   description |-> description, authenticate |-> authenticate,
   schema |-> schema]

RegisterInputs ==
  {RegisterInput("echo", "svc", "f1", "d1", FALSE, "ok"),
   RegisterInput("echo", "billing", "f2", "d2", TRUE, "ok"),
   RegisterInput("hello", "svc", "f2", "d2", TRUE, "ok"),
   RegisterInput("hello", "billing", "f1", "d1", TRUE, "ok"),
   RegisterInput("hello", "svc", "notAFunction", "d1", FALSE, "ok"),
   RegisterInput("hello", "billing", "f1", "d1", FALSE, "invalid")}

NoCall == [input |-> RegisterInput("", "", "", "", FALSE, ""), error |-> ""]

\* the registration built from a call's input
Registration(input) ==
  [name |-> input.name, authenticate |-> input.authenticate,
   serviceName |-> input.serviceName, func |-> input.func,
   schema |-> input.schema, description |-> input.description]

\* a Service of that name is in the client's list
Started(svcs, name) == \E i \in 1 .. Len(svcs) : svcs[i] = name

\* registerFunction that assigns whatever the registry already holds
registerFunction_Overwrites(reg, svcs, input) ==
  [registry |-> [f \in DOMAIN reg \cup {input.name} |->
                   IF f = input.name THEN Registration(input) ELSE reg[f]],
   error |-> ""]

\* registerFunction that assigns whether or not the service was started
registerFunction_AfterStart(reg, svcs, input) ==
  IF input.name \in DOMAIN reg
  THEN [registry |-> reg, error |-> "AlreadyRegistered"]
  ELSE IF input.schema # "ok"
  THEN [registry |-> reg, error |-> "InvalidSchema"]
  ELSE IF input.func = "notAFunction"
  THEN [registry |-> reg, error |-> "NotAFunction"]
  ELSE [registry |-> [f \in DOMAIN reg \cup {input.name} |->
                        IF f = input.name THEN Registration(input) ELSE reg[f]],
        error |-> ""]

\* registerFunction that files every registration under the service svc
registerFunction_WrongService(reg, svcs, input) ==
  IF input.name \in DOMAIN reg
  THEN [registry |-> reg, error |-> "AlreadyRegistered"]
  ELSE IF input.schema # "ok"
  THEN [registry |-> reg, error |-> "InvalidSchema"]
  ELSE IF Started(svcs, input.serviceName)
  THEN [registry |-> reg, error |-> "RegisteredAfterStart"]
  ELSE IF input.func = "notAFunction"
  THEN [registry |-> reg, error |-> "NotAFunction"]
  ELSE [registry |-> [f \in DOMAIN reg \cup {input.name} |->
                        IF f = input.name
                        THEN [Registration(input) EXCEPT !.serviceName = "svc"]
                        ELSE reg[f]],
        error |-> ""]

\* registerFunction: the registry after the call and the error it throws, "" if
\* it returns.  The name must be new; the name, the description and the schema
\* must validate; the service must have no Service object yet; the handler
\* must be a function; then the registration is assigned under its name.
registerFunction(reg, svcs, input) ==
  IF input.name \in DOMAIN reg
  THEN [registry |-> reg, error |-> "AlreadyRegistered"]
  ELSE IF input.schema # "ok"
  THEN [registry |-> reg, error |-> "InvalidSchema"]
  ELSE IF Started(svcs, input.serviceName)
  THEN [registry |-> reg, error |-> "RegisteredAfterStart"]
  ELSE IF input.func = "notAFunction"
  THEN [registry |-> reg, error |-> "NotAFunction"]
  ELSE [registry |-> [f \in DOMAIN reg \cup {input.name} |->
                        IF f = input.name THEN Registration(input) ELSE reg[f]],
        error |-> ""]

\* functions?.forEach(register): the calls in order, up to the first that throws
RECURSIVE RegisterEach(_, _, _)
RegisterEach(reg, svcs, inputs) ==
  IF Len(inputs) = 0
  THEN [registry |-> reg, error |-> ""]
  ELSE LET r == registerFunction(reg, svcs, Head(inputs)) IN
       IF r.error # "" THEN r ELSE RegisterEach(r.registry, svcs, Tail(inputs))

\* an agent constructed with the whole registry of the client
functionRegistry_Unfiltered == clientRegistry

\* the registry the agent was constructed with: the functions of its service
functionRegistry ==
  [f \in {g \in FunctionNames : clientRegistry[g].serviceName = ServiceName}
     |-> clientRegistry[f]]

\* this.functionRegistry[job.targetFn]
IsRegistered(fn) == fn \in DOMAIN functionRegistry

\* the names in the body of the createMachine call: the entries of the
\* agent's registry whose serviceName is the agent's service
AnnouncedFunctions ==
  {f \in DOMAIN functionRegistry :
     functionRegistry[f].serviceName = ServiceName}

\* typeof v
TypeOf(v) == IF v.type \in {"object", "array", "null"} THEN "object" ELSE v.type

\* InvalidFormat without the Array.isArray test
InvalidFormat_NoArrayTest(args) ==
  TypeOf(args) # "object" \/ args.type = "null"

\* typeof args !== "object" || Array.isArray(args) || args === null
InvalidFormat(args) ==
  TypeOf(args) # "object" \/ args.type = "array" \/ args.type = "null"

\* a parse that accepts every object
SchemaFails_Never(args) == FALSE

\* registration.schema.input.parse(args) of z.object({text: z.string()}):
\* TRUE when it throws
SchemaFails(args) == args.field # "string"

(***************************************************************************)
(* Results.                                                                *)
(***************************************************************************)
NoResult == [type |-> "none", name |-> "", text |-> ""]
Rejection(name, message) == [type |-> "rejection", name |-> name, text |-> message]
Resolution(text) == [type |-> "resolution", name |-> "", text |-> text]

\* the handlers: echo and secure return {echo: input.text}, snapshot returns
\* content with MaxBlobs binary leaves, error throws an Error,
\* getCustomAnimal throws an error of a class of its own; executeFn
\* makes a resolution of the value and a rejection of the serialized error
HandlerResult(fn, args) ==
  CASE fn \in {"echo", "secure"} -> Resolution(args.text)
    [] fn = "snapshot" -> Resolution("binary")
    [] fn = "getCustomAnimal" -> Rejection("AnimalError", "This is a custom error")
    [] OTHER -> Rejection("Error", "This is an error")

(***************************************************************************)
(* Messages and processMessage.                                            *)
(***************************************************************************)
Msgs == DOMAIN queue

EmptyBody == [json |-> "empty", value |-> Undefined]

Job(id, fn, argsWire, auth) ==
  [id |-> id, targetFn |-> fn, targetArgs |-> argsWire, authContext |-> auth]

\* a processMessage run.  pc: "threwEarly" thrown before acknowledgeJob,
\* "ack" acknowledgeJob awaited, "threw" thrown after the acknowledgement,
\* "auth" authenticate awaited, "exec" the handler awaited, "persist"
\* createResult awaited, "done", "failed" createResult answered non-204.
\* ack: the status acknowledgeJob answered, 0 before; wrapped: executeFn was
\* called; invoked: the handler was called; result and jobId: what
\* createResult was called with, jobId 0 before; persisted: createResult
\* answered 204; blobCalls: the createBlob calls issued, in order; blobsLeft:
\* those of them not yet answered
Task(pc, wrapped, invoked, result) ==
  [pc |-> pc, ack |-> 0, wrapped |-> wrapped, invoked |-> invoked,
   result |-> result, jobId |-> 0, persisted |-> FALSE, blobCalls |-> <<>>,
   blobsLeft |-> {}]

\* extractBlobs(result.content): the binary leaves of the content, in order
extractBlobs(result) ==
  IF result.type = "resolution" /\ result.text = "binary"
  THEN [i \in 1 .. MaxBlobs |-> i]
  ELSE <<>>

\* persistBlobs: one createBlob call for each extracted blob, under the id of
\* the job of this run
PersistBlobs(job, blobs) ==
  [i \in 1 .. Len(blobs) |-> [jobId |-> job.id, blob |-> blobs[i]]]

\* onComplete persisting under the id of the job received last
OnComplete_LatestJob(job, wrapped, invoked, result) ==
  [Task("persist", wrapped, invoked, result) EXCEPT
     !.jobId = CHOOSE m \in Msgs :
                 /\ Len(procs[m]) > 0
                 /\ \A n \in Msgs : Len(procs[n]) > 0 => n <= m]

\* onComplete persisting every result as a resolution
OnComplete_AlwaysResolution(job, wrapped, invoked, result) ==
  [Task("persist", wrapped, invoked, [result EXCEPT !.type = "resolution"])
     EXCEPT !.jobId = job.id]

\* onComplete(result) up to its await: createResult is called with the
\* result under the id of the job of this run, and createBlob for each
\* extracted blob
OnComplete(job, wrapped, invoked, result) ==
  LET blobs == extractBlobs(result) IN
  [Task("persist", wrapped, invoked, result) EXCEPT
     !.jobId = job.id,
     !.blobCalls = PersistBlobs(job, blobs),
     !.blobsLeft = 1 .. Len(blobs)]

\* processMessage up to the await of acknowledgeJob
ProcessStart(msg) ==
  IF msg.json = "empty" THEN Task("threwEarly", FALSE, FALSE, NoResult)
  ELSE LET job == unpack(msg) IN
       IF job = Thrown \/ job = Undefined
       THEN Task("threwEarly", FALSE, FALSE, NoResult)
       ELSE Task("ack", FALSE, FALSE, NoResult)

\* executeFn up to its first await
ExecuteFn(job) ==
  IF functionRegistry[job.targetFn].authenticate
  THEN IF job.authContext = ""
       THEN OnComplete(job, TRUE, FALSE,
                 Rejection("InferableError", "auth context required"))
       ELSE Task("auth", TRUE, FALSE, NoResult)
  ELSE Task("exec", TRUE, TRUE, NoResult)

\* processMessage without the branch for a missing registration: reading
\* the registration of an unregistered function throws
ProcessAfterAck_NoLookupBranch(job) ==
  IF ~IsRegistered(job.targetFn) THEN Task("threw", FALSE, FALSE, NoResult)
  ELSE LET args == unpack(job.targetArgs) IN
       IF args = Thrown THEN Task("threw", FALSE, FALSE, NoResult)
       ELSE IF InvalidFormat(args)
            THEN OnComplete(job, FALSE, FALSE,
                      Rejection("Error", "invalid format"))
            ELSE IF SchemaFails(args)
                 THEN OnComplete(job, FALSE, FALSE,
                           Rejection("ZodError", "text: expected string"))
                 ELSE ExecuteFn(job)

\* processMessage that hands the arguments to executeFn unvalidated
ProcessAfterAck_NoValidation(job) ==
  IF ~IsRegistered(job.targetFn)
  THEN OnComplete(job, FALSE, FALSE,
            Rejection("InferableError", "not registered"))
  ELSE ExecuteFn(job)

\* processMessage from the acknowledgement to its next await
ProcessAfterAck(job) ==
  IF ~IsRegistered(job.targetFn)
  THEN OnComplete(job, FALSE, FALSE,
            Rejection("InferableError", "not registered"))
  ELSE LET args == unpack(job.targetArgs) IN
       IF args = Thrown THEN Task("threw", FALSE, FALSE, NoResult)
       ELSE IF InvalidFormat(args)
            THEN OnComplete(job, FALSE, FALSE,
                      Rejection("Error", "invalid format"))
            ELSE IF SchemaFails(args)
                 THEN OnComplete(job, FALSE, FALSE,
                           Rejection("ZodError", "text: expected string"))
                 ELSE ExecuteFn(job)

\* executeFn after authenticate settled: a rejection, or the handler invoked
ExecuteAfterAuth(job) ==
  IF job.authContext = "good" THEN Task("exec", TRUE, TRUE, NoResult)
  ELSE OnComplete(job, TRUE, FALSE, Rejection("Error", "unauthorised"))

\* executeFn after the handler settled, and onComplete up to its await
ExecuteAfterHandler(job) ==
  OnComplete(job, TRUE, TRUE,
       HandlerResult(job.targetFn, unpack(job.targetArgs)))

(***************************************************************************)
(* The environment's answers.                                              *)
(***************************************************************************)
\* a createMachine response of each kind; a network failure is reported by
\* the API client as status -1
Response(kind) ==
  CASE kind = "fresh" ->
         [status |-> 200, expiration |-> now + FreshTtl, enabled |-> "true",
          body |-> kind]
    [] kind = "expired" ->
         [status |-> 200, expiration |-> now - OneMinute, enabled |-> "true",
          body |-> kind]
    [] kind = "disabled" ->
         [status |-> 200, expiration |-> now + FreshTtl, enabled |-> "false",
          body |-> kind]
    [] kind = "noflag" ->
         [status |-> 200, expiration |-> now + FreshTtl, enabled |-> "absent",
          body |-> kind]
    [] kind = "network" ->
         [status |-> 0 - 1, expiration |-> Nil, enabled |-> "absent",
          body |-> kind]
    [] OTHER ->
         [status |-> 500, expiration |-> Nil, enabled |-> "absent",
          body |-> kind]

\* the credentials consumer c was built with are still accepted by the queue
CredsValid(c) == now <= regs[cons[c].reg].expiration

\* a request of consumer c may succeed: not aborted, credentials accepted
MaySucceed(c) == ~cons[c].stopped /\ CredsValid(c)

\* a request of consumer c may fail: aborted, credentials refused, or a
\* transient failure of the transport
MayFail(c) == cons[c].stopped \/ ~CredsValid(c) \/ errs < env.errors

\* the failure counted when it is a transient one
CountFailure(c) ==
  errs' = IF cons[c].stopped \/ ~CredsValid(c) THEN errs ELSE errs + 1

Bounded(s) ==
  /\ Len(s.restarts) <= MaxRestarts
  /\ s.regCalls <= MaxRegs

(***************************************************************************)
(* Actions of the caller.                                                  *)
(***************************************************************************)
\* service.start() on a client with no service yet: the Service is created and
\* listed, then its agent's start() runs registerMachine up to the await of
\* createMachine
UserStart ==
  /\ ustart.pc = "idle"
  /\ ustart' = [ustart EXCEPT !.pc = "register"]
  /\ Commit(RegisterCall(Agent))
  /\ services' = Append(services, ServiceName)
  /\ UNCHANGED <<process, clientVars, now, ustop, errs, env, msgVars>>

\* registerMachine assigning the fields of the response before looking at its
\* status
RegisterReturn_AssignsFirst(s, task, resp) ==
  IF resp.status # 200
  THEN [agent |-> [s EXCEPT !.pollingEnabled = OrTrue(resp.enabled),
                            !.credentialsExpiration = resp.expiration],
        task |-> [task EXCEPT !.pc = "failed", !.err = "RegistrationFailed",
                              !.status = resp.status, !.body = resp.body]]
  ELSE [agent |-> RegisterSuccess(s, resp),
        task |-> IF RegisterOutcome(s) = "done"
                 THEN [task EXCEPT !.pc = "done"]
                 ELSE [task EXCEPT !.pc = "failed",
                                   !.err = "ConsumerAlreadyStarted"]]

\* registerMachine from the answer of createMachine to its end, for the task
\* that awaited it: the agent's fields and the task afterwards
RegisterReturn(s, task, resp) ==
  IF resp.status # 200
  THEN [agent |-> s,
        task |-> [task EXCEPT !.pc = "failed", !.err = "RegistrationFailed",
                              !.status = resp.status, !.body = resp.body]]
  ELSE [agent |-> RegisterSuccess(s, resp),
        task |-> IF RegisterOutcome(s) = "done"
                 THEN [task EXCEPT !.pc = "done"]
                 ELSE [task EXCEPT !.pc = "failed",
                                   !.err = "ConsumerAlreadyStarted"]]

\* the caller's start() gets its answer
UserStartReturn ==
  /\ ustart.pc = "register"
  /\ \E kind \in env.regFirst :
       LET r == RegisterReturn(Agent, ustart, Response(kind)) IN
       /\ Commit(r.agent)
       /\ ustart' = r.task
  /\ UNCHANGED <<process, clientVars, services, now, ustop, errs, env, msgVars>>

\* stop() without its throw: with no consumer it goes on to the exit callback
UserStop_NoThrow ==
  /\ ustop.pc = "idle"
  /\ IF consumer = 0
     THEN /\ ustop' = [ustop EXCEPT !.pc = "done"]
          /\ Commit(AgentStopResume(Agent))
     ELSE LET s == AgentStopSync(Agent) IN
          IF StopWaitOver(s)
          THEN /\ Commit(AgentStopResume(s))
               /\ ustop' = [ustop EXCEPT !.pc = "done"]
          ELSE /\ Commit(s)
               /\ ustop' = [ustop EXCEPT !.pc = "stopWait"]
  /\ UNCHANGED <<process, clientVars, services, now, ustart, errs, env, msgVars>>

\* stop(): throws without a consumer; else stops the consumer and either
\* finishes at once or waits for the consumer to report not polling
UserStop ==
  /\ ustop.pc = "idle"
  /\ IF consumer = 0
     THEN /\ ustop' = [ustop EXCEPT !.pc = "failed", !.err = "NotRunning"]
          /\ Commit(Agent)
     ELSE LET s == AgentStopSync(Agent) IN
          IF StopWaitOver(s)
          THEN /\ Commit(AgentStopResume(s))
               /\ ustop' = [ustop EXCEPT !.pc = "done"]
          ELSE /\ Commit(s)
               /\ ustop' = [ustop EXCEPT !.pc = "stopWait"]
  /\ UNCHANGED <<process, clientVars, services, now, ustart, errs, env, msgVars>>

\* the check timer of the caller's stop() finds this.consumer not polling
UserStopResume ==
  /\ ustop.pc = "stopWait"
  /\ StopWaitOver(Agent)
  /\ Commit(AgentStopResume(Agent))
  /\ ustop' = [ustop EXCEPT !.pc = "done"]
  /\ UNCHANGED <<process, clientVars, services, now, ustart, errs, env, msgVars>>

(***************************************************************************)
(* Actions of a restart.                                                   *)
(***************************************************************************)
\* the check timer of a restart's stop() finds this.consumer not polling:
\* stop() returns, the consumer is discarded, start() is called
RestartResume(k) ==
  /\ restarts[k].pc = "stopWait"
  /\ StopWaitOver(Agent)
  /\ regCalls < MaxRegs
  /\ Commit([RestartAfterStop(Agent) EXCEPT !.restarts[k].pc = "register"])
  /\ UNCHANGED <<process, clientVars, services, now, ustart, ustop, errs, env, msgVars>>

\* a restart's start() gets its answer
RestartReturn(k) ==
  /\ restarts[k].pc = "register"
  /\ \E kind \in env.regLater :
       LET r == RegisterReturn(Agent, restarts[k], Response(kind)) IN
       Commit([r.agent EXCEPT !.restarts[k] = r.task])
  /\ UNCHANGED <<process, clientVars, services, now, ustart, ustop, errs, env, msgVars>>

(***************************************************************************)
(* Actions of a consumer's poll loop.                                      *)
(***************************************************************************)
Consumers == 1 .. Len(cons)

\* the poll timer fires: the next receive call is sent
PollTimer(c) ==
  /\ cons[c].phase = "timer"
  /\ Commit([Agent EXCEPT !.cons[c].phase = "recv"])
  /\ UNCHANGED <<process, clientVars, services, now, ustart, ustop, errs, env, msgVars>>

\* the receive call answers with no message: "empty" is emitted
ReceiveEmpty(c) ==
  /\ cons[c].phase = "recv"
  /\ MaySucceed(c)
  /\ LET s == FinishPoll(Emit(Agent, c), c) IN Bounded(s) /\ Commit(s)
  /\ UNCHANGED <<process, clientVars, services, now, ustart, ustop, errs, env, msgVars>>

\* the receive call fails: "error" is emitted
ReceiveError(c) ==
  /\ cons[c].phase = "recv"
  /\ MayFail(c)
  /\ CountFailure(c)
  /\ LET s == FinishPoll(Emit(Agent, c), c) IN Bounded(s) /\ Commit(s)
  /\ UNCHANGED <<process, clientVars, services, now, ustart, ustop, env, msgVars>>

\* the receive call answers with a batch: handleMessage is run for each
\* message (processMessage is started and not awaited) and returns the
\* message, so the consumer sends its delete
ReceiveMessages(c) ==
  /\ cons[c].phase = "recv"
  /\ MaySucceed(c)
  /\ \E batch \in SUBSET Msgs :
       /\ batch # {}
       /\ Cardinality(batch) <= BatchSize
       /\ \A m \in batch : queue[m] = "visible" /\ Len(procs[m]) < env.deliveries
       /\ queue' = [m \in Msgs |-> IF m \in batch THEN "inflight" ELSE queue[m]]
       /\ procs' = [m \in Msgs |->
                      IF m \in batch THEN Append(procs[m], ProcessStart(msgs[m]))
                      ELSE procs[m]]
       /\ Commit([Agent EXCEPT !.cons[c].phase = "del", !.cons[c].batch = batch])
  /\ UNCHANGED <<process, clientVars, services, now, ustart, ustop, errs, env, msgs>>

\* the end of a batch: "response_processed" is emitted once no delete is left
BatchStep(s, c) ==
  IF s.cons[c].batch = {} THEN FinishPoll(Emit(s, c), c) ELSE s

\* the delete of message m succeeds
DeleteOk(c, m) ==
  /\ cons[c].phase = "del"
  /\ m \in cons[c].batch
  /\ MaySucceed(c)
  /\ queue' = [queue EXCEPT ![m] = "deleted"]
  /\ LET s == BatchStep([Agent EXCEPT !.cons[c].batch = @ \ {m}], c)
     IN Bounded(s) /\ Commit(s)
  /\ UNCHANGED <<process, clientVars, services, now, ustart, ustop, errs, env, msgs, procs>>

\* the delete of message m fails: "error" is emitted, the message stays
DeleteError(c, m) ==
  /\ cons[c].phase = "del"
  /\ m \in cons[c].batch
  /\ MayFail(c)
  /\ CountFailure(c)
  /\ LET s == BatchStep(Emit([Agent EXCEPT !.cons[c].batch = @ \ {m}], c), c)
     IN Bounded(s) /\ Commit(s)
  /\ UNCHANGED <<process, clientVars, services, now, ustart, ustop, env, msgVars>>

\* the consumer's own wait after stop() ends: "stopped" is emitted
ConsumerStopped(c) ==
  /\ cons[c].waiting
  /\ ~IsPolling(Agent, c)
  /\ Commit(EmitStopped([Agent EXCEPT !.cons[c].waiting = FALSE], c))
  /\ UNCHANGED <<process, clientVars, services, now, ustart, ustop, errs, env, msgVars>>

(***************************************************************************)
(* Actions of the queue and of the clock.                                  *)
(***************************************************************************)
\* the visibility timeout of a received, undeleted message ends
VisibilityTimeout(m) ==
  /\ queue[m] = "inflight"
  /\ \A c \in Consumers : m \notin cons[c].batch
  /\ queue' = [queue EXCEPT ![m] = "visible"]
  /\ UNCHANGED <<process, clientVars, services, lifeVars, msgs, procs>>

Tick ==
  /\ now < MaxTicks * TickMs
  /\ now' = now + TickMs
  /\ UNCHANGED <<process, clientVars, services, consumer, sqsQueueUrl, pollingEnabled, credentialsExpiration,
                 regCalls, regs, exitCalls, cons, ustart, ustop, restarts,
                 errs, env, msgVars>>

(***************************************************************************)
(* Actions of processMessage.                                              *)
(***************************************************************************)
JobOf(m) == unpack(msgs[m])

Runs(m) == 1 .. Len(procs[m])

SetTask(m, d, task) ==
  /\ process = "running"
  /\ procs' = [procs EXCEPT ![m][d] = [task EXCEPT !.ack = procs[m][d].ack]]
  /\ UNCHANGED <<process, clientVars, services, lifeVars, queue, msgs>>

\* a continuation that runs only while the agent's consumer is running
AckReturn_OnlyWhileRunning(m, d) ==
  /\ process = "running"
  /\ procs[m][d].pc = "ack"
  /\ consumer # 0
  /\ IF consumer = 0 THEN FALSE ELSE ~cons[consumer].stopped
  /\ \E status \in env.ack :
       /\ procs' = [procs EXCEPT
                      ![m][d] = [ProcessAfterAck(JobOf(m)) EXCEPT !.ack = status]]
       /\ UNCHANGED <<process, clientVars, services, lifeVars, queue, msgs>>

\* a refused acknowledgement treated as fatal: the run throws
AckReturn_RefusalIsFatal(m, d) ==
  /\ process = "running"
  /\ procs[m][d].pc = "ack"
  /\ \E status \in env.ack :
       /\ procs' = [procs EXCEPT
                      ![m][d] = IF status = 204
                                THEN [ProcessAfterAck(JobOf(m)) EXCEPT
                                        !.ack = status]
                                ELSE [Task("threw", FALSE, FALSE, NoResult)
                                        EXCEPT !.ack = status]]
       /\ UNCHANGED <<process, clientVars, services, lifeVars, queue, msgs>>

\* acknowledgeJob answers; a non-204 status is only logged
AckReturn(m, d) ==
  /\ process = "running"
  /\ procs[m][d].pc = "ack"
  /\ \E status \in env.ack :
       /\ procs' = [procs EXCEPT
                      ![m][d] = [ProcessAfterAck(JobOf(m)) EXCEPT !.ack = status]]
       /\ UNCHANGED <<process, clientVars, services, lifeVars, queue, msgs>>

\* authenticate settles
AuthReturn(m, d) ==
  /\ procs[m][d].pc = "auth"
  /\ SetTask(m, d, ExecuteAfterAuth(JobOf(m)))

\* the handler settles
HandlerReturn(m, d) ==
  /\ procs[m][d].pc = "exec"
  /\ SetTask(m, d, ExecuteAfterHandler(JobOf(m)))

\* onComplete that awaits createResult alone
PersistReturn_IgnoresBlobs(m, d) ==
  /\ procs[m][d].pc = "persist"
  /\ ~procs[m][d].persisted
  /\ \E status \in env.persist :
       SetTask(m, d, [procs[m][d] EXCEPT
                        !.persisted = (status = 204),
                        !.pc = IF status # 204 THEN "failed" ELSE "done"])

\* createResult answers: non-204 makes onComplete throw; after 204 the run
\* goes on waiting for the createBlob calls not yet answered
PersistReturn(m, d) ==
  /\ procs[m][d].pc = "persist"
  /\ ~procs[m][d].persisted
  /\ \E status \in env.persist :
       SetTask(m, d, [procs[m][d] EXCEPT
                        !.persisted = (status = 204),
                        !.pc = IF status # 204 THEN "failed"
                               ELSE IF procs[m][d].blobsLeft = {} THEN "done"
                               ELSE "persist"])

\* createBlob call b of the run answers; its response is not looked at
BlobReturn(m, d, b) ==
  /\ procs[m][d].pc \in {"persist", "failed"}
  /\ b \in procs[m][d].blobsLeft
  /\ SetTask(m, d, [procs[m][d] EXCEPT
                      !.blobsLeft = @ \ {b},
                      !.pc = IF /\ procs[m][d].pc = "persist"
                                /\ procs[m][d].persisted
                                /\ procs[m][d].blobsLeft = {b}
                             THEN "done" ELSE @])

(***************************************************************************)
(* Specifications.                                                         *)
(***************************************************************************)
\* message bodies the control plane and the queue may deliver
ArgWires ==
  {pack(Obj(x)) : x \in Texts}
    \cup {pack(BadObj), pack(Arr), pack(Prim), pack(Null), Garbage, JsonNull,
          JsonNoValue}

Bodies(id) ==
  {pack(Job(id, "echo", w, "")) : w \in ArgWires}
    \cup {pack(Job(id, fn, pack(Obj("a")), "")) :
             fn \in {"error", "getCustomAnimal", "ghost", "other"}}
    \cup {pack(Job(id, "ghost", Garbage, ""))}
    \cup {pack(Job(id, "secure", pack(Obj("a")), auth)) : auth \in {"", "good", "bad"}}
    \cup {EmptyBody, Garbage}

EchoABodies(id) == {pack(Job(id, "echo", pack(Obj("a")), ""))}

\* jobs that succeed: an echo job, and a job for the function with an
\* authenticator carrying an auth context it accepts
GoodBodies(id) ==
  {pack(Job(id, "echo", pack(Obj("a")), "")),
   pack(Job(id, "secure", pack(Obj("a")), "good"))}

EchoBodies(id) == {pack(Job(id, "echo", pack(Obj(x)), "")) : x \in Texts}

AnyEnv ==
  [regFirst |-> {"fresh", "expired", "disabled", "network", "http500"},
   regLater |-> {"fresh", "expired", "disabled", "network", "http500"},
   ack |-> {204}, persist |-> {204}, errors |-> 1,
   deliveries |-> MaxDeliveries]

\* the client before any call: the fixture's functions registered, no service
\* started
InitClient ==
  /\ registry = clientRegistry
  /\ services = <<>>
  /\ starts = <<>>
  /\ definition = <<>>
  /\ lastCall = NoCall

\* the agent as constructed
InitFields ==
  /\ process = "running"
  /\ now = 0
  /\ consumer = 0
  /\ sqsQueueUrl = 0
  /\ pollingEnabled = TRUE
  /\ credentialsExpiration = Nil
  /\ regCalls = 0
  /\ regs = <<>>
  /\ exitCalls = 0
  /\ cons = <<>>
  /\ ustart = NewTask
  /\ ustop = NewTask
  /\ restarts = <<>>
  /\ errs = 0

\* the agent as constructed, in a client that registered the fixture's functions
InitAgent == InitFields /\ InitClient

\* the messages in the queue, message m with a body of bodies[m]
InitQueue(bodies) ==
  /\ queue = [m \in DOMAIN bodies |-> "visible"]
  /\ procs = [m \in DOMAIN bodies |-> <<>>]
  /\ msgs \in {f \in [DOMAIN bodies -> UNION {bodies[m] : m \in DOMAIN bodies}] :
                 \A m \in DOMAIN bodies : f[m] \in bodies[m]}

Init ==
  /\ InitAgent
  /\ env = AnyEnv
  /\ InitQueue([m \in 1 .. 1 |-> EchoABodies(m)])

Lifecycle ==
  \/ UserStart
  \/ UserStartReturn
  \/ UserStop
  \/ UserStopResume
  \/ \E k \in 1 .. Len(restarts) : RestartResume(k)
  \/ \E k \in 1 .. Len(restarts) : RestartReturn(k)
  \/ \E c \in Consumers : ConsumerStopped(c)
  \/ Tick

Polling ==
  \/ \E c \in Consumers : PollTimer(c)
  \/ \E c \in Consumers : ReceiveEmpty(c)
  \/ \E c \in Consumers : ReceiveError(c)
  \/ \E c \in Consumers : ReceiveMessages(c)
  \/ \E c \in Consumers : \E m \in Msgs : DeleteOk(c, m)
  \/ \E c \in Consumers : \E m \in Msgs : DeleteError(c, m)
  \/ \E m \in Msgs : VisibilityTimeout(m)

Processing ==
  \/ \E m \in Msgs : \E d \in Runs(m) : AckReturn(m, d)
  \/ \E m \in Msgs : \E d \in Runs(m) : AuthReturn(m, d)
  \/ \E m \in Msgs : \E d \in Runs(m) : HandlerReturn(m, d)
  \/ \E m \in Msgs : \E d \in Runs(m) : PersistReturn(m, d)

Next == Lifecycle \/ Polling

Spec == Init /\ [][Next]_vars

(***************************************************************************)
(* Message processing by a started agent: the control plane accepts the    *)
(* registration, the queue delivers each message once.  The first message  *)
(* carries any body, the others well-formed echo jobs.                     *)
(***************************************************************************)
ProcEnv ==
  [regFirst |-> {"fresh"}, regLater |-> {"fresh"},
   ack |-> {204, 500}, persist |-> {204, 500}, errors |-> 0, deliveries |-> 1]

ProcBodies(id) == IF id = 1 THEN Bodies(id) ELSE EchoBodies(id)

InitProc ==
  /\ InitAgent
  /\ env = ProcEnv
  /\ InitQueue([m \in 1 .. MaxMsgs |-> ProcBodies(m)])

NextProc ==
  \/ UserStart
  \/ UserStartReturn
  \/ \E c \in Consumers : PollTimer(c)
  \/ \E c \in Consumers : ReceiveEmpty(c)
  \/ \E c \in Consumers : ReceiveMessages(c)
  \/ \E c \in Consumers : \E m \in Msgs : DeleteOk(c, m)
  \/ Processing

SpecProc == InitProc /\ [][NextProc]_vars

(***************************************************************************)
(* Claims about message processing.                                        *)
(***************************************************************************)
\* message m carries a job
IsJob(m) == unpack(msgs[m]) \notin {Thrown, Undefined}

\* message m carries a job for a registered function, with these arguments
HasArgs(m, values) ==
  /\ IsJob(m)
  /\ IsRegistered(JobOf(m).targetFn)
  /\ unpack(JobOf(m).targetArgs) \in values

\* run t ended or awaits createResult, with this result and no handler run
RejectedUnrun(t, result) ==
  /\ t.pc \in {"ack", "persist", "done", "failed"}
  /\ ~t.wrapped
  /\ ~t.invoked
  /\ t.pc # "ack" => t.result = result

\* C1: every job that processMessage acknowledged has a createResult call
\* issued for it by the time its processing has ended, on every path.
C1_ClaimedJobGetsResult ==
  \A m \in Msgs : \A d \in Runs(m) :
    (procs[m][d].ack = 204 /\ procs[m][d].pc \in {"threw", "done", "failed"})
      => procs[m][d].result # NoResult

\* C3: a job whose targetFn has no registration is acknowledged, gets a
\* rejection carrying the not-registered error, and no handler is invoked.
C3_UnregisteredRejected ==
  \A m \in Msgs : \A d \in Runs(m) :
    (IsJob(m) /\ ~IsRegistered(JobOf(m).targetFn))
      => RejectedUnrun(procs[m][d],
                       Rejection("InferableError", "not registered"))

C3_Witness ==
  \E m \in Msgs : \E d \in Runs(m) :
    /\ IsJob(m)
    /\ JobOf(m).targetFn = "ghost"
    /\ procs[m][d].pc = "done"
    /\ procs[m][d].ack = 204

\* C4: arguments that fail the input schema give a rejection naming the
\* validation failure and the handler is never invoked; arguments that
\* satisfy it reach the execution wrapper, which invokes the handler (for a
\* function with an authenticator, only with an accepted auth context).
C4_SchemaGate ==
  \A m \in Msgs : \A d \in Runs(m) :
    LET t == procs[m][d] IN
    /\ HasArgs(m, {BadObj})
         => RejectedUnrun(t, Rejection("ZodError", "text: expected string"))
    /\ (HasArgs(m, {Obj(x) : x \in Texts}) /\ t.pc # "ack")
         => /\ t.wrapped
            /\ t.pc # "threw"
            /\ ~functionRegistry[JobOf(m).targetFn].authenticate
                 => t.invoked
            /\ (functionRegistry[JobOf(m).targetFn].authenticate /\ t.invoked)
                 => JobOf(m).authContext = "good"

C4_Witness ==
  /\ HasArgs(1, {BadObj})
  /\ Len(procs[1]) = 1
  /\ procs[1][1].pc = "done"
  /\ HasArgs(2, {Obj("b")})
  /\ Len(procs[2]) = 1
  /\ procs[2][1].pc = "done"
  /\ procs[2][1].result = Resolution("b")

\* C5: decoded arguments that are an array, a primitive or null give the
\* invalid-format rejection and the handler is never invoked.
C5_InvalidShapeRejected ==
  \A m \in Msgs : \A d \in Runs(m) :
    HasArgs(m, {Arr, Prim, Null, Undefined})
      => RejectedUnrun(procs[m][d], Rejection("Error", "invalid format"))

C5_Witness ==
  \E m \in Msgs : \E d \in Runs(m) :
    /\ HasArgs(m, {Arr})
    /\ procs[m][d].pc = "done"

(***************************************************************************)
(* The agent with message processing and redelivery.                       *)
(***************************************************************************)
InitAll ==
  /\ InitAgent
  /\ env = AnyEnv
  /\ InitQueue([m \in 1 .. 1 |-> GoodBodies(m)])

NextAll == Next \/ Processing

SpecAll == InitAll /\ [][NextAll]_vars

(***************************************************************************)
(* Claims about the lifecycle.                                             *)
(***************************************************************************)
\* the fields registerMachine assigns from a response, and the consumer
RegistrationFields ==
  <<consumer, sqsQueueUrl, pollingEnabled, credentialsExpiration, regs, cons>>

\* task t fails in this step because createMachine did not answer 200
RegistrationFails(t, u) ==
  /\ t.pc = "register"
  /\ u.pc = "failed"
  /\ u.err = "RegistrationFailed"

C9_StoppedForGood ==
  [][ustop.pc = "done"
       => /\ regCalls' = regCalls
          /\ Len(cons') = Len(cons)
          /\ \A c \in Consumers : cons[c].stopped => cons'[c].stopped
    ]_vars

\* C10: from the return of stop() on, no consumer is polling, no consumer
\* has a lifecycle listener attached, and the exit callback has been invoked.
C10_StopPostcondition ==
  [][ustop'.pc = "done"
       => /\ \A c \in 1 .. Len(cons') :
               /\ cons'[c].phase \notin {"recv", "del"}
               /\ ~cons'[c].listeners
          /\ exitCalls' >= 1
    ]_vars

\* C2: a message's job is executed by its first delivery only: no later
\* delivery of the same job runs the handler or persists a result.
C2_NoSecondExecution ==
  \A m \in Msgs :
    /\ Cardinality({d \in Runs(m) : procs[m][d].invoked}) <= 1
    /\ Cardinality({d \in Runs(m) : procs[m][d].pc = "done"}) <= 1

(***************************************************************************)
(* Recovery from credential expiry: the first registration answers with    *)
(* credentials that have expired, every later one with credentials that    *)
(* stay valid; the caller never stops the agent.                           *)
(***************************************************************************)
ExpiryEnv ==
  [regFirst |-> {"expired"}, regLater |-> {"fresh"},
   ack |-> {204}, persist |-> {204}, errors |-> 0, deliveries |-> 1]

InitExpiry ==
  /\ InitAgent
  /\ env = ExpiryEnv
  /\ InitQueue([m \in 1 .. MaxMsgs |-> GoodBodies(m)])

NextExpiry ==
  \/ UserStart
  \/ UserStartReturn
  \/ \E k \in 1 .. Len(restarts) : RestartResume(k)
  \/ \E k \in 1 .. Len(restarts) : RestartReturn(k)
  \/ \E c \in Consumers : ConsumerStopped(c)
  \/ \E c \in Consumers : PollTimer(c)
  \/ \E c \in Consumers : ReceiveEmpty(c)
  \/ \E c \in Consumers : ReceiveError(c)
  \/ \E c \in Consumers : ReceiveMessages(c)
  \/ \E c \in Consumers : \E m \in Msgs : DeleteOk(c, m)
  \/ Processing

SpecExpiry == InitExpiry /\ [][NextExpiry]_vars

\* run d of message m ended with its resolution persisted
Succeeded(m, d) ==
  /\ procs[m][d].pc = "done"
  /\ procs[m][d].result.type = "resolution"

\* C7: createMachine is called at most twice, and exactly twice by the time a
\* job has completed successfully.
C7_OneReRegistration ==
  /\ regCalls <= 2
  /\ \A m \in Msgs : \A d \in Runs(m) : Succeeded(m, d) => regCalls = 2

C7_Witness ==
  /\ regCalls = 2
  /\ Len(regs) = 2
  /\ regs[1].body = "expired"
  /\ \A m \in Msgs : \E d \in Runs(m) : Succeeded(m, d)

(***************************************************************************)
(* Recovery from transient failures of the queue transport: the requests   *)
(* of the consumer may fail TransientFailures times; registrations answer  *)
(* with valid credentials.                                                 *)
(***************************************************************************)
TransientEnv ==
  [regFirst |-> {"fresh"}, regLater |-> {"fresh"},
   ack |-> {204}, persist |-> {204}, errors |-> TransientFailures,
   deliveries |-> 1]

InitTransient ==
  /\ InitAgent
  /\ env = TransientEnv
  /\ InitQueue([m \in 1 .. MaxMsgs |-> GoodBodies(m)])

NextTransient ==
  \/ UserStart
  \/ UserStartReturn
  \/ \E c \in Consumers : PollTimer(c)
  \/ \E c \in Consumers : ReceiveEmpty(c)
  \/ \E c \in Consumers : ReceiveError(c)
  \/ \E c \in Consumers : ReceiveMessages(c)
  \/ \E c \in Consumers : \E m \in Msgs : DeleteOk(c, m)
  \/ Processing

\* the caller starts the agent, calls and timers get their answers, and the
\* queue hands a visible message to a consumer that keeps asking
FairTransient ==
  /\ WF_vars(UserStart)
  /\ WF_vars(UserStartReturn)
  /\ WF_vars(\E c \in Consumers : PollTimer(c))
  /\ WF_vars(\E c \in Consumers : \E m \in Msgs : DeleteOk(c, m))
  /\ WF_vars(Processing)
  /\ SF_vars(\E c \in Consumers : ReceiveMessages(c))

SpecTransient == InitTransient /\ [][NextTransient]_vars /\ FairTransient

\* start() succeeded, the agent is polling, and every job has been executed
\* and its resolution persisted
Recovered ==
  /\ ustart.pc = "done"
  /\ consumer # 0
  /\ IF consumer = 0 THEN FALSE ELSE ~cons[consumer].stopped
  /\ \A m \in Msgs : \E d \in Runs(m) : Succeeded(m, d)

\* C8: whatever requests fail first, the run reaches, and then stays in,
\* states where start() has succeeded, the agent is polling and every job
\* has its resolution persisted.
C8_TransientRecovery == <>[]Recovered

C8_Witness ==
  /\ errs = TransientFailures
  /\ Recovered

(***************************************************************************)
(* Stopping while messages are being processed: registrations answer with  *)
(* credentials that are valid or have expired, so that the consumer is     *)
(* stopped by the caller or by a restart; calls in flight get their        *)
(* answers.                                                                *)
(***************************************************************************)
StopEnv ==
  [regFirst |-> {"fresh", "expired"}, regLater |-> {"fresh"},
   ack |-> {204}, persist |-> {204}, errors |-> 0, deliveries |-> 1]

\* the first message carries either successful job, the others echo jobs
StopBodies(id) == IF id = 1 THEN GoodBodies(id) ELSE EchoABodies(id)

InitStop ==
  /\ InitAgent
  /\ env = StopEnv
  /\ InitQueue([m \in 1 .. MaxMsgs |-> StopBodies(m)])

NextStop ==
  \/ UserStart
  \/ UserStartReturn
  \/ UserStop
  \/ UserStopResume
  \/ \E k \in 1 .. Len(restarts) : RestartResume(k)
  \/ \E k \in 1 .. Len(restarts) : RestartReturn(k)
  \/ \E c \in Consumers : ConsumerStopped(c)
  \/ \E c \in Consumers : PollTimer(c)
  \/ \E c \in Consumers : ReceiveEmpty(c)
  \/ \E c \in Consumers : ReceiveError(c)
  \/ \E c \in Consumers : ReceiveMessages(c)
  \/ \E c \in Consumers : \E m \in Msgs : DeleteOk(c, m)
  \/ \E c \in Consumers : \E m \in Msgs : DeleteError(c, m)
  \/ Processing

\* the calls a processMessage run awaits get their answers
FairStop == WF_vars(Processing)

SpecStop == InitStop /\ [][NextStop]_vars /\ FairStop

\* the first run of message m has ended with its result persisted
FirstRunPersisted(m) ==
  IF Len(procs[m]) = 0 THEN FALSE
  ELSE procs[m][1].pc = "done" /\ procs[m][1].result # NoResult

\* the first run of message m awaits acknowledgeJob
FirstRunAwaitsAck(m) ==
  IF Len(procs[m]) = 0 THEN FALSE ELSE procs[m][1].pc = "ack"

C12_StopWithoutConsumer ==
  [][(ustop.pc = "idle" /\ ustop'.pc # "idle")
       => IF consumer = 0
          THEN /\ ustop' = [ustop EXCEPT !.pc = "failed", !.err = "NotRunning"]
               /\ UNCHANGED <<process, clientVars, services, now, consumer, sqsQueueUrl, pollingEnabled,
                               credentialsExpiration, regCalls, regs,
                               exitCalls, cons, ustart, restarts, errs, env,
                               msgVars>>
          ELSE ustop'.pc \in {"stopWait", "done"}
    ]_vars

\* stop() failed in the window of a restart, after a consumer had existed
C12_Witness ==
  /\ ustop.pc = "failed"
  /\ ustop.err = "NotRunning"
  /\ Len(cons) > 0
  /\ consumer = 0
  /\ \E k \in 1 .. Len(restarts) : restarts[k].pc = "register"

\* run d of message m has called createResult
Persisting(m, d) == procs[m][d].pc \in {"persist", "done", "failed"}

\* C13: every createResult call of a run carries the id of the job of that
\* run, and the resolution of an echo job echoes the text of that job's own
\* arguments, whatever other runs are in flight.
C13_JobsIsolated ==
  \A m \in Msgs : \A d \in Runs(m) :
    Persisting(m, d)
      => /\ procs[m][d].jobId = JobOf(m).id
         /\ \A n \in Msgs \ {m} : \A e \in Runs(n) :
              Persisting(n, e) => procs[n][e].jobId # procs[m][d].jobId
         /\ (JobOf(m).targetFn = "echo" /\ procs[m][d].invoked)
              => procs[m][d].result = Resolution(unpack(JobOf(m).targetArgs).text)

\* two echo jobs with different texts in flight together, the first already
\* persisting its own echo while the handler of the second runs
C13_Witness ==
  /\ Len(procs[1]) = 1
  /\ Len(procs[2]) = 1
  /\ procs[1][1].pc = "persist"
  /\ procs[1][1].result = Resolution("a")
  /\ procs[2][1].pc = "exec"
  /\ unpack(JobOf(2).targetArgs) = Obj("b")

\* C14: a run whose handler returned persists a resolution with the value
\* returned; a run whose handler threw persists a rejection with the name
\* and the message of the error, the name of the error's own class included;
\* no such run ends by throwing.
C14_OutcomeClassified ==
  \A m \in Msgs : \A d \in Runs(m) :
    LET t == procs[m][d] IN
    t.invoked
      => /\ t.pc \in {"exec", "persist", "done", "failed"}
         /\ Persisting(m, d)
              => t.result =
                   CASE JobOf(m).targetFn = "error" ->
                          [type |-> "rejection", name |-> "Error",
                           text |-> "This is an error"]
                     [] JobOf(m).targetFn = "getCustomAnimal" ->
                          [type |-> "rejection", name |-> "AnimalError",
                           text |-> "This is a custom error"]
                     [] OTHER ->
                          [type |-> "resolution", name |-> "",
                           text |-> unpack(JobOf(m).targetArgs).text]

\* a custom error persisted while a returned value is persisted
C14_Witness ==
  /\ Len(procs[1]) = 1
  /\ Len(procs[2]) = 1
  /\ IsJob(1)
  /\ JobOf(1).targetFn = "getCustomAnimal"
  /\ procs[1][1].pc = "done"
  /\ procs[1][1].result.name = "AnimalError"
  /\ procs[2][1].pc = "done"
  /\ procs[2][1].result.type = "resolution"

(***************************************************************************)
(* The client: register calls under two services and start() calls of the  *)
(* service svc, whose definition carries no functions or one.  The         *)
(* control plane accepts or refuses the registration of the agent; the     *)
(* queue is empty.                                                         *)
(***************************************************************************)
MaxStarts == 2

\* Object.values(this.functionRegistry).map((f) => f.name)
registeredFunctions == {registry[f].name : f \in DOMAIN registry}

\* the polling getter of the agent of a listed Service
polling == consumer # 0 /\ IsRunning(Agent, consumer)

activeServices == {services[i] : i \in {j \in 1 .. Len(services) : polling}}

inactiveServices == {services[i] : i \in {j \in 1 .. Len(services) : ~polling}}

\* register(): registerFunction under the service of the input
Register(input) ==
  LET r == registerFunction(registry, services, input) IN
  /\ registry' = r.registry
  /\ lastCall' = [input |-> input, error |-> r.error]
  /\ UNCHANGED <<process, lifeVars, msgVars, services, starts, definition>>

\* start() up to its await of the definition's functions
ServiceStartCall(k) ==
  /\ starts[k].pc = "idle"
  /\ starts' = [starts EXCEPT ![k] = [@ EXCEPT !.pc = "functions"]]
  /\ UNCHANGED <<process, lifeVars, msgVars, services, registry, definition, lastCall>>

\* start() resumed: the definition's functions are registered, the service must
\* not be listed yet, the Service is created and listed and its start() runs up
\* to the await of createMachine
ServiceStartResume(k) ==
  /\ starts[k].pc = "functions"
  /\ LET r == RegisterEach(registry, services, definition) IN
     /\ registry' = r.registry
     /\ IF r.error # ""
        THEN /\ starts' = [starts EXCEPT ![k] =
                             [@ EXCEPT !.pc = "failed", !.err = r.error]]
             /\ UNCHANGED <<services, ustart>>
             /\ Commit(Agent)
        ELSE IF Started(services, ServiceName)
        THEN /\ starts' = [starts EXCEPT ![k] =
                             [@ EXCEPT !.pc = "failed",
                                       !.err = "ServiceAlreadyStarted"]]
             /\ UNCHANGED <<services, ustart>>
             /\ Commit(Agent)
        ELSE /\ starts' = [starts EXCEPT ![k] = [@ EXCEPT !.pc = "agent"]]
             /\ services' = Append(services, ServiceName)
             /\ IF ustart.pc = "idle"
                THEN /\ ustart' = [ustart EXCEPT !.pc = "register"]
                     /\ Commit(RegisterCall(Agent))
                ELSE /\ UNCHANGED ustart
                     /\ Commit(Agent)
  /\ UNCHANGED <<process, now, ustop, errs, env, msgVars, definition, lastCall>>

Definitions ==
  {<<>>, <<RegisterInput("echo", "svc", "f1", "d1", FALSE, "ok")>>}

ClientEnv ==
  [regFirst |-> {"fresh", "http500"}, regLater |-> {"fresh"},
   ack |-> {204}, persist |-> {204}, errors |-> 0, deliveries |-> 1]

InitClientSpec ==
  /\ InitFields
  /\ env = ClientEnv
  /\ InitQueue([m \in {} |-> {}])
  /\ registry = [f \in {} |-> NoCall.input]
  /\ services = <<>>
  /\ starts = [k \in 1 .. MaxStarts |-> NewTask]
  /\ definition \in Definitions
  /\ lastCall = NoCall

NextClient ==
  \/ \E input \in RegisterInputs : Register(input)
  \/ \E k \in 1 .. MaxStarts : ServiceStartCall(k)
  \/ \E k \in 1 .. MaxStarts : ServiceStartResume(k)
  \/ UserStartReturn
  \/ UserStop
  \/ UserStopResume
  \/ \E c \in Consumers : PollTimer(c)
  \/ \E c \in Consumers : ReceiveEmpty(c)
  \/ \E c \in Consumers : ReceiveError(c)

SpecClient == InitClientSpec /\ [][NextClient]_vars

(***************************************************************************)
(* C15: function names are unique across the services of a client.  No     *)
(* step changes or removes a registration the registry holds, every        *)
(* registration is filed under its own name, and a register call whose     *)
(* name the registry already holds, under the same service or another,     *)
(* fails as a duplicate and leaves the registry as it was.                 *)
(***************************************************************************)
C15_NamesUnique ==
  [][/\ \A f \in DOMAIN registry :
          f \in DOMAIN registry' /\ registry'[f] = registry[f]
     /\ \A f \in DOMAIN registry' : registry'[f].name = f
     /\ (lastCall' # lastCall /\ lastCall'.input.name \in DOMAIN registry)
          => /\ lastCall'.error = "AlreadyRegistered"
             /\ registry' = registry]_vars

\* a register call refused because another service holds the name
C15_Witness ==
  /\ lastCall.error = "AlreadyRegistered"
  /\ lastCall.input.name \in DOMAIN registry
  /\ registry[lastCall.input.name].serviceName # lastCall.input.serviceName

\* the registrations the registry holds for a service
RegistrationsOf(reg, name) ==
  {reg[f] : f \in {g \in DOMAIN reg : reg[g].serviceName = name}}

(***************************************************************************)
(* C16: once a Service object exists for a service name, every register    *)
(* call under that name fails, the registrations of that service never     *)
(* change again, and every registration a step adds belongs to a service   *)
(* that had no Service object when the step began.                         *)
(***************************************************************************)
C16_FrozenAfterStart ==
  [][/\ \A name \in ServiceNames :
          Started(services, name)
            => /\ Started(services', name)
               /\ RegistrationsOf(registry', name)
                    = RegistrationsOf(registry, name)
               /\ (lastCall' # lastCall
                     /\ lastCall'.input.serviceName = name)
                    => lastCall'.error # ""
     /\ \A f \in DOMAIN registry' \ DOMAIN registry :
          ~Started(services, registry'[f].serviceName)]_vars

\* a register call refused because its service was started, while the other
\* service holds a registration
C16_Witness ==
  /\ lastCall.error = "RegisteredAfterStart"
  /\ Started(services, lastCall.input.serviceName)
  /\ \E f \in DOMAIN registry : registry[f].serviceName = "billing"

\* no name is listed twice in the client's services and at most one start()
\* call created a Service
OneServicePerName ==
  /\ \A i, j \in 1 .. Len(services) : services[i] = services[j] => i = j
  /\ Cardinality({k \in DOMAIN starts : starts[k].pc = "agent"}) <= 1

(***************************************************************************)
(* C17: at most one agent per service name.  No name is listed twice in    *)
(* the client's services, at most one start() call created an agent, and   *)
(* once the service is listed every start() call that failed did so with   *)
(* 'Service is already started'.                                           *)
(***************************************************************************)
C17_OneAgentPerService ==
  /\ OneServicePerName
  /\ Started(services, ServiceName)
       => \A k \in DOMAIN starts :
            starts[k].pc = "failed" => starts[k].err = "ServiceAlreadyStarted"

(***************************************************************************)
(* C18: activeServices and inactiveServices split the started services by  *)
(* whether their agent is polling.  Before start() the service is in       *)
(* neither list, and once stop() has returned it is in inactiveServices    *)
(* and not in activeServices.                                              *)
(***************************************************************************)
C18_ListsFollowLifecycle ==
  /\ activeServices \cap inactiveServices = {}
  /\ activeServices \cup inactiveServices
       = {services[i] : i \in 1 .. Len(services)}
  /\ ustart.pc = "idle" => activeServices \cup inactiveServices = {}
  /\ ustop.pc = "done"
       => /\ ServiceName \in inactiveServices
          /\ ServiceName \notin activeServices

(***************************************************************************)
(* C19: after a register call that returns, the registry holds under the   *)
(* call's name the supplied name, handler, description and authenticator   *)
(* with the service name the call was made under, registeredFunctions      *)
(* contains the name, and the call was made with a handler that is a       *)
(* function and a schema that validates.                                   *)
(***************************************************************************)
C19_RegisteredAsSupplied ==
  [][(lastCall' # lastCall /\ lastCall'.error = "")
       => LET input == lastCall'.input IN
          /\ input.name \in DOMAIN registry'
          /\ registry'[input.name].name = input.name
          /\ registry'[input.name].func = input.func
          /\ registry'[input.name].description = input.description
          /\ registry'[input.name].authenticate = input.authenticate
          /\ registry'[input.name].serviceName = input.serviceName
          /\ input.name \in registeredFunctions'
          /\ input.name \notin registeredFunctions
          /\ input.func # "notAFunction"
          /\ input.schema = "ok"]_vars

\* both services hold a registration, one with an authenticator and one without
C19_Witness ==
  /\ lastCall.error = ""
  /\ lastCall.input.name \in DOMAIN registry
  /\ registry[lastCall.input.name] = Registration(lastCall.input)
  /\ \E f, g \in DOMAIN registry :
       /\ registry[f].serviceName = "svc"
       /\ registry[g].serviceName = "billing"
       /\ registry[f].authenticate # registry[g].authenticate
  /\ registeredFunctions = {"echo", "hello"}

\* the checkAndRestartIfNeeded runs that called stop() and have not yet got
\* the answer to their re-registration
RestartsInFlight ==
  {k \in 1 .. Len(restarts) : restarts[k].pc \in {"stopWait", "register"}}

(***************************************************************************)
(* C20: at most one credential-expiry restart is in flight per agent: a    *)
(* lifecycle signal that arrives while a restart is in progress does not   *)
(* begin a second stop and re-register cycle.                              *)
(***************************************************************************)
C20_OneRestartInFlight == Cardinality(RestartsInFlight) <= 1

\* a lifecycle signal of consumer c reaches the agent's listeners in this step:
\* its poll ends with "empty", "error" or "response_processed"
Signal(c) ==
  /\ cons[c].listeners
  /\ cons[c].phase \in {"recv", "del"}
  /\ cons'[c].phase \in {"timer", "off"}

\* the recorded credentials are expired or expire in less than one minute
Stale ==
  /\ credentialsExpiration # Nil
  /\ \/ now > credentialsExpiration
     \/ credentialsExpiration - now < OneMinute

(***************************************************************************)
(* C21: a restart begins only on stale credentials (expired, or expiring   *)
(* in less than one minute).  A lifecycle signal that finds them stale     *)
(* begins a restart (one for each signal of the step): the current         *)
(* consumer is told to stop and the restart waits in stop().  A signal     *)
(* that finds more than a minute remaining, or                             *)
(* no recorded expiration, leaves the consumer, the credentials and the    *)
(* registration count unchanged.                                           *)
(***************************************************************************)
C21_RestartIffStale ==
  [][/\ Len(restarts') > Len(restarts) => Stale
     /\ \A c \in Consumers :
          Signal(c)
            => IF Stale
               THEN /\ consumer = c
                    /\ consumer' = c
                    /\ cons'[c].stopped
                    /\ Len(restarts') > Len(restarts)
                    /\ \A k \in Len(restarts) + 1 .. Len(restarts') :
                         restarts'[k].pc = "stopWait"
               ELSE /\ consumer' = consumer
                    /\ cons'[c].stopped = cons[c].stopped
                    /\ credentialsExpiration' = credentialsExpiration
                    /\ sqsQueueUrl' = sqsQueueUrl
                    /\ regCalls' = regCalls
                    /\ restarts' = restarts]_vars

\* a restart begun at the instant the credentials run out, when they expire
\* in less than a minute but are not yet expired
C21_Witness ==
  /\ Len(restarts) = 1
  /\ restarts[1].pc = "stopWait"
  /\ regs[1].body = "fresh"
  /\ now = credentialsExpiration

(***************************************************************************)
(* Persistence of results with blobs by a started agent: the first message *)
(* is a job whose result has binary leaves, one whose result has none or   *)
(* one that fails validation, the others are jobs whose result has binary  *)
(* leaves; createResult may answer 204 or 500.                             *)
(***************************************************************************)
SnapshotBodies(id) == {pack(Job(id, "snapshot", pack(Obj("a")), ""))}

\* jobs that fail validation: arguments off the schema, arguments that are
\* no object, a function that is not registered
InvalidBodies(id) ==
  {pack(Job(id, "echo", pack(BadObj), "")),
   pack(Job(id, "echo", pack(Arr), "")),
   pack(Job(id, "ghost", pack(Obj("a")), ""))}

BlobBodies(id) ==
  IF id = 1
  THEN SnapshotBodies(id) \cup GoodBodies(id) \cup InvalidBodies(id)
  ELSE SnapshotBodies(id)

BlobEnv ==
  [regFirst |-> {"fresh"}, regLater |-> {"fresh"},
   ack |-> {204}, persist |-> {204, 500}, errors |-> 0, deliveries |-> 1]

InitBlob ==
  /\ InitAgent
  /\ env = BlobEnv
  /\ InitQueue([m \in 1 .. MaxMsgs |-> BlobBodies(m)])

NextBlob ==
  \/ UserStart
  \/ UserStartReturn
  \/ \E c \in Consumers : PollTimer(c)
  \/ \E c \in Consumers : ReceiveEmpty(c)
  \/ \E c \in Consumers : ReceiveMessages(c)
  \/ \E c \in Consumers : \E m \in Msgs : DeleteOk(c, m)
  \/ Processing
  \/ \E m \in Msgs : \E d \in Runs(m) : \E b \in 1 .. MaxBlobs :
       BlobReturn(m, d, b)

SpecBlob == InitBlob /\ [][NextBlob]_vars

\* what the run's message asks to be called with
ArgsOf(m) == unpack(JobOf(m).targetArgs)

(***************************************************************************)
(* C22: within the processing of one message the steps are ordered.  A     *)
(* run that has validated, invoked the handler or called createResult or   *)
(* createBlob has had the answer of acknowledgeJob; a run that invoked the *)
(* handler has validated the arguments; and while the handler runs no      *)
(* createResult and no createBlob has been issued.                         *)
(***************************************************************************)
C22_StepsOrdered ==
  \A m \in Msgs : \A d \in Runs(m) :
    LET t == procs[m][d] IN
    /\ t.pc \in {"threwEarly", "ack"}
         => /\ t.ack = 0
            /\ ~t.wrapped /\ ~t.invoked
            /\ t.jobId = 0 /\ t.blobCalls = <<>>
    /\ t.pc \notin {"threwEarly", "ack"} => t.ack # 0
    /\ (t.wrapped \/ t.invoked)
         => /\ IsRegistered(JobOf(m).targetFn)
            /\ ~InvalidFormat(ArgsOf(m))
            /\ ~SchemaFails(ArgsOf(m))
    /\ t.pc \in {"auth", "exec"}
         => /\ t.jobId = 0
            /\ t.blobCalls = <<>>
            /\ t.result = NoResult
    /\ (t.jobId # 0 \/ t.blobCalls # <<>>)
         => t.pc \in {"persist", "done", "failed"}

\* a job acknowledged, its handler run, its result and blobs persisted
C22_Witness ==
  /\ Len(procs[1]) = 1
  /\ procs[1][1].pc = "done"
  /\ procs[1][1].ack = 204
  /\ procs[1][1].invoked
  /\ Len(procs[1][1].blobCalls) = MaxBlobs

\* handleMessage returned message m to the consumer, which takes it as handled:
\* its delete is in flight or done
ReportedHandled(m) ==
  \/ queue[m] = "deleted"
  \/ \E c \in Consumers : m \in cons[c].batch

(***************************************************************************)
(* C23: a message with no body makes processMessage throw before any call  *)
(* to the control plane (no acknowledgeJob, no createResult), and the      *)
(* message is not reported to the consumer as handled.                     *)
(***************************************************************************)
C23_EmptyBodyNotHandled ==
  \A m \in Msgs :
    msgs[m].json = "empty"
      => /\ \A d \in Runs(m) :
              /\ procs[m][d].pc = "threwEarly"
              /\ procs[m][d].ack = 0
              /\ procs[m][d].jobId = 0
         /\ ~ReportedHandled(m)

(***************************************************************************)
(* C29: a received message is reported to the consumer as handled only     *)
(* after processMessage for it has finished, and not when its processing   *)
(* failed: whenever the message is reported as handled, its latest run has *)
(* ended without throwing.                                                 *)
(***************************************************************************)
C29_HandledAfterProcessing ==
  \A m \in Msgs :
    ReportedHandled(m)
      => /\ Len(procs[m]) > 0
         /\ IF Len(procs[m]) = 0 THEN FALSE
            ELSE procs[m][Len(procs[m])].pc = "done"

(***************************************************************************)
(* Rejections of processMessage.  handleMessage drops the promise of       *)
(* processMessage, so a run that throws is an unhandled promise rejection. *)
(* What becomes of it is the runtime's choice: a warning, after which the  *)
(* process goes on (no step here), or, the default since Node.js 15, an    *)
(* uncaught exception that ends the process.                               *)
(***************************************************************************)
Rejected(m, d) == procs[m][d].pc \in {"threwEarly", "threw", "failed"}

UnhandledRejection(m, d) ==
  /\ process = "running"
  /\ Rejected(m, d)
  /\ process' = "crashed"
  /\ UNCHANGED <<lifeVars, msgVars, clientVars, services>>

PersistEnv ==
  [regFirst |-> {"fresh"}, regLater |-> {"fresh"},
   ack |-> {204}, persist |-> {204, 500}, errors |-> 0, deliveries |-> 1]

InitPersist ==
  /\ InitAgent
  /\ env = PersistEnv
  /\ InitQueue([m \in 1 .. MaxMsgs |-> GoodBodies(m)])

NextPersist ==
  \/ UserStart
  \/ UserStartReturn
  \/ \E c \in Consumers : PollTimer(c)
  \/ \E c \in Consumers : ReceiveEmpty(c)
  \/ \E c \in Consumers : ReceiveMessages(c)
  \/ \E c \in Consumers : \E m \in Msgs : DeleteOk(c, m)
  \/ Processing
  \/ \E m \in Msgs : \E d \in Runs(m) : UnhandledRejection(m, d)

SpecPersist == InitPersist /\ [][NextPersist]_vars

(***************************************************************************)
(* C24: when createResult answers non-204 an error is raised for that job  *)
(* and the agent is not brought down: the process goes on, the agent's     *)
(* consumer keeps running.                                                 *)
(***************************************************************************)
C24_PersistFailureContained ==
  \A m \in Msgs : \A d \in Runs(m) :
    procs[m][d].pc = "failed"
      => /\ process = "running"
         /\ consumer # 0
         /\ IF consumer = 0 THEN FALSE ELSE IsRunning(Agent, consumer)

(***************************************************************************)
(* C25: a non-204 answer to acknowledgeJob is only logged.  Whatever the   *)
(* status, the step that receives the answer takes the run to where the    *)
(* lookup, the validation and executeFn take it after a 204; no later      *)
(* step changes the recorded status, and a handler that ends takes the run *)
(* to createResult.                                                        *)
(***************************************************************************)
C25_AckFailureOnlyLogged ==
  [][\A m \in Msgs : \A d \in Runs(m) :
       /\ (procs[m][d].pc = "ack" /\ procs'[m][d].pc # "ack")
            => /\ procs'[m][d].ack \in {204, 500}
               /\ [procs'[m][d] EXCEPT !.ack = 0] = ProcessAfterAck(JobOf(m))
       /\ procs[m][d].pc # "ack" => procs'[m][d].ack = procs[m][d].ack
       /\ (procs[m][d].pc = "exec" /\ procs'[m][d].pc # "exec")
            => procs'[m][d].pc = "persist"]_vars

\* a job whose acknowledgement was refused, executed and its result persisted
C25_Witness ==
  /\ Len(procs[2]) = 1
  /\ procs[2][1].ack = 500
  /\ procs[2][1].invoked
  /\ procs[2][1].pc = "done"
  /\ procs[2][1].result.type = "resolution"

(***************************************************************************)
(* C26: the result and the blobs of a job are persisted together.  Once    *)
(* createResult has been called for a run, one createBlob call has been    *)
(* issued for each blob extracted from its result, in order, each under    *)
(* the id of the run's job, and createResult under that id too; a run is   *)
(* complete only when createResult has answered 204 and every createBlob   *)
(* call has been answered.                                                 *)
(***************************************************************************)
C26_ResultAndBlobsTogether ==
  \A m \in Msgs : \A d \in Runs(m) :
    LET t == procs[m][d]
        blobs == extractBlobs(t.result)
    IN
    /\ t.jobId = 0 => t.blobCalls = <<>> /\ t.blobsLeft = {}
    /\ t.jobId # 0
         => /\ t.jobId = JobOf(m).id
            /\ Len(t.blobCalls) = Len(blobs)
            /\ \A i \in 1 .. Len(blobs) :
                 t.blobCalls[i] = [jobId |-> JobOf(m).id, blob |-> blobs[i]]
            /\ t.blobsLeft \subseteq 1 .. Len(blobs)
    /\ t.pc = "done" => t.persisted /\ t.blobsLeft = {}

\* createResult and the createBlob calls of one job in flight at once, while
\* another job is complete with all its blobs stored
C26_Witness ==
  /\ Len(procs[1]) = 1
  /\ Len(procs[2]) = 1
  /\ procs[1][1].pc = "persist"
  /\ ~procs[1][1].persisted
  /\ procs[1][1].blobsLeft = 1 .. MaxBlobs
  /\ procs[2][1].pc = "done"
  /\ Len(procs[2][1].blobCalls) = MaxBlobs

(***************************************************************************)
(* The enabled flag: the control plane accepts every registration, with    *)
(* polling enabled, disabled, or with no flag in the response; credentials *)
(* expire as the clock advances, the agent restarts and is stopped.        *)
(***************************************************************************)
EnabledEnv ==
  [regFirst |-> {"fresh", "disabled", "noflag"},
   regLater |-> {"fresh", "disabled", "noflag"},
   ack |-> {204}, persist |-> {204}, errors |-> 1,
   deliveries |-> MaxDeliveries]

InitEnabled ==
  /\ InitAgent
  /\ env = EnabledEnv
  /\ InitQueue([m \in 1 .. 1 |-> EchoABodies(m)])

SpecEnabled == InitEnabled /\ [][Next]_vars

C28_ConsumerMatchesCredentials ==
  consumer # 0
    => /\ cons[consumer].reg = sqsQueueUrl
       /\ credentialsExpiration = regs[cons[consumer].reg].expiration

(***************************************************************************)
(* C30: at most one consumer of the agent runs at any time: every consumer *)
(* the agent created is the one it references or is stopped.               *)
(***************************************************************************)
C30_OneConsumerRunning ==
  /\ \A c \in Consumers : c = consumer \/ cons[c].stopped
  /\ Cardinality({c \in Consumers : ~cons[c].stopped}) <= 1

(***************************************************************************)
(* C31: once the start() of a service failed because the control plane    *)
(* refused the registration, the service is in neither activeServices nor  *)
(* inactiveServices, a later start() of it is not refused as already       *)
(* started, and a later register for it is not refused as made after the   *)
(* start.                                                                  *)
(***************************************************************************)
C31_FailedStartForgotten ==
  [][(ustart.pc = "failed" /\ ustart.err = "RegistrationFailed")
       => /\ ServiceName \notin (activeServices \cup inactiveServices)
          /\ \A k \in DOMAIN starts :
               starts'[k] # starts[k]
                 => starts'[k].err # "ServiceAlreadyStarted"
          /\ lastCall' # lastCall
               => lastCall'.error # "RegisteredAfterStart"]_vars

(***************************************************************************)
(* C32: once the re-registration of a credential-expiry restart failed,   *)
(* the agent holds no consumer and is not polling, no later step           *)
(* registers again, and a stop() called then fails with "Consumer is not   *)
(* running".                                                               *)
(***************************************************************************)
C32_FailedRestartIsFinal ==
  [][(\E k \in DOMAIN restarts :
        restarts[k].pc = "failed" /\ restarts[k].err = "RegistrationFailed")
       => /\ consumer = 0
          /\ ~polling
          /\ regCalls' = regCalls
          /\ (ustop.pc = "idle" /\ ustop'.pc # "idle")
               => ustop'.err = "NotRunning"]_vars

(***************************************************************************)
(* Stopping around a restart: the first registration answers with          *)
(* credentials that are valid or have expired, every later one with valid  *)
(* credentials that age with the clock; the queue is empty.  Calls get     *)
(* their answers, timers fire and a consumer that was told to stop ends    *)
(* its poll.                                                               *)
(***************************************************************************)
InitStopWait ==
  /\ InitAgent
  /\ env = StopEnv
  /\ InitQueue([m \in {} |-> {}])

NextStopWait ==
  \/ UserStart
  \/ UserStartReturn
  \/ UserStop
  \/ UserStopResume
  \/ \E k \in 1 .. Len(restarts) : RestartResume(k)
  \/ \E k \in 1 .. Len(restarts) : RestartReturn(k)
  \/ \E c \in Consumers : ConsumerStopped(c)
  \/ \E c \in Consumers : PollTimer(c)
  \/ \E c \in Consumers : ReceiveEmpty(c)
  \/ \E c \in Consumers : ReceiveError(c)
  \/ Tick

FairStopWait ==
  /\ WF_vars(UserStartReturn)
  /\ WF_vars(UserStopResume)
  /\ WF_vars(\E k \in 1 .. Len(restarts) : RestartResume(k))
  /\ WF_vars(\E k \in 1 .. Len(restarts) : RestartReturn(k))
  /\ \A c \in 1 .. MaxRegs :
       /\ WF_vars(c \in Consumers /\ ConsumerStopped(c))
       /\ WF_vars(c \in Consumers /\ PollTimer(c))
       /\ WF_vars(c \in Consumers /\ (ReceiveEmpty(c) \/ ReceiveError(c)))

SpecStopWait == InitStopWait /\ [][NextStopWait]_vars /\ FairStopWait

(***************************************************************************)
(* C33: every stop() that found a consumer returns in the end, given that  *)
(* calls are answered, timers fire and the stopped consumer ends its poll, *)
(* whatever lifecycle signals and restarts run beside it.                  *)
(***************************************************************************)
C33_StopReturns == (ustop.pc = "stopWait") ~> (ustop.pc = "done")

(***************************************************************************)
(* C34: an agent runs only the handlers of its own service.  The names it  *)
(* looks jobs up under are the names it announced when it registered; no   *)
(* run enters the execution wrapper for a function the client holds under  *)
(* another service, and every run for such a function is acknowledged and  *)
(* rejected as not registered.                                             *)
(***************************************************************************)
OtherService(fn) ==
  fn \in DOMAIN clientRegistry /\ clientRegistry[fn].serviceName # ServiceName

C35_ExitOncePerStop ==
  LET begunByCaller == IF ustop.pc \in {"stopWait", "done"} THEN 1 ELSE 0
      returnedToCaller == IF ustop.pc = "done" THEN 1 ELSE 0
      returnedToRestart ==
        Cardinality({k \in DOMAIN restarts : restarts[k].pc # "stopWait"})
  IN /\ returnedToCaller + returnedToRestart <= exitCalls
     /\ exitCalls <= begunByCaller + Len(restarts)

====
